---------------------------- MODULE Spec2Model ----------------------------
(***************************************************************************)
(* Order execution engine: the order pipeline (HTTP intake, BullMQ queue   *)
(* and worker, OrderQueueService.processOrder, DatabaseService,            *)
(* WebSocketService) and the DEX router's route selection.                 *)
(*                                                                         *)
(* Specifications:                                                         *)
(*   Spec        the pipeline, every interleaving of intake, workers,      *)
(*               clock and connections                                     *)
(*   RouterSpec  one findBestRoute call, for every pair of quote outcomes   *)
(*               and either return order, then one executeOrder call on     *)
(*               the selected route                                         *)
(*   IntakeSpec  one POST /api/orders/execute request, for every body of    *)
(*               the bounded set, through schema, handler checks,           *)
(*               createOrder and addOrderToQueue                            *)
(*   StatsSpec   one getQueueStats call, for every outcome of its four      *)
(*               count queries                                              *)
(*   WsSpec      WebSocketService alone: connections of two users, client   *)
(*               messages, order events, clock and heartbeat sweep          *)
(*   DbSpec      DatabaseService.updateOrderStatus on one row, query by     *)
(*               query, with a rejection possible at every query            *)
(***************************************************************************)
EXTENDS Integers, Sequences, FiniteSets, TLC

----------------------------------------------------------------------------
(* Bounds of the model *)

\* orders submitted in one run
NumOrders == 2
\* worker option `concurrency` (10 in the source), scaled
Concurrency == 1
\* limiter option `max` (100 in the source), scaled
RateMax == 2
\* limiter option `duration` (60000 ms in the source), in ticks, scaled
RateDuration == 2
\* infrastructure faults (a database or Redis call that throws) in one run
MaxFaults == 1
\* WebSocket connections opened in one run
MaxConns == 1
\* venue prices are drawn from 1..MaxPrice
MaxPrice == 4

(* Program constants *)

\* job option `attempts`
Attempts == 3
\* job option `backoff.delay` (2000 ms), the length of one tick
BackoffDelay == 1

\* executeOrder: fractions are counted in units of 1 / SlipUnit
SlipUnit == 100000
\* slippage = 0.001 + Math.random() * 0.002
SlippageMin == 100
SlippageSpan == 200
\* requested amounts are drawn from 1..MaxAmount
MaxAmount == 2

\* WsSpec: connections opened, events published, users
WsMaxConns == 2
WsMaxEvents == 2
\* StatsSpec: a count query answers 0..MaxCount
MaxCount == 1
\* DbSpec: calls of DatabaseService.updateOrderStatus on the one row
MaxCalls == 2

\* setupHeartbeat: staleThreshold (5 minutes) in ticks of the sweep interval
\* (1 minute)
StaleThreshold == 5

Orders == 1..NumOrders
Slots == 1..Concurrency
ConnIds == 1..MaxConns
Prices == 1..MaxPrice
Amounts == 1..MaxAmount
WsConnIds == 1..WsMaxConns
Counts == 0..MaxCount

----------------------------------------------------------------------------
(* OrderStatus and its place in the state machine *)

PENDING == "pending"
PROCESSING == "processing"
ROUTING == "routing"
EXECUTING == "executing"
COMPLETED == "completed"
FAILED == "failed"
CANCELLED == "cancelled"

OrderStatus == {PENDING, PROCESSING, ROUTING, EXECUTING, COMPLETED, FAILED, CANCELLED}

\* position in Submitted < Processing < Routing < Executing < terminal
Rank(st) ==
  CASE st = PENDING -> 0
    [] st = PROCESSING -> 1
    [] st = ROUTING -> 2
    [] st = EXECUTING -> 3
    [] OTHER -> 4

Terminal(st) == st \in {COMPLETED, FAILED}
InFlight(st) == st \in {PROCESSING, ROUTING, EXECUTING}

getProgressForStatusFlat(st) ==
  CASE st = PENDING -> 10
    [] st = PROCESSING -> 20
    [] st = ROUTING -> 20
    [] st = EXECUTING -> 70
    [] st = COMPLETED -> 100
    [] OTHER -> 0

\* progressMap[status] || 0
getProgressForStatus(st) ==
  CASE st = PENDING -> 10
    [] st = PROCESSING -> 20
    [] st = ROUTING -> 40
    [] st = EXECUTING -> 70
    [] st = COMPLETED -> 100
    [] OTHER -> 0

RAYDIUM == "raydium"
METEORA == "meteora"

----------------------------------------------------------------------------
(* DEXRouterService.findBestRoute: route selection *)

NoQuote == [provider |-> "none", price |-> 0]
Quote(p, v) == [provider |-> p, price |-> v]

BuyBetterOrEqual(current, best) == current.price <= best.price

BuyBetter(current, best) == current.price < best.price
SellBetter(current, best) == current.price > best.price

\* Array.prototype.reduce without an initial value over a two-element array:
\* the first element is the initial best, the second replaces it if better
Reduce2(routes, side) ==
  LET better(current, best) ==
        IF side = "buy" THEN BuyBetter(current, best) ELSE SellBetter(current, best)
  IN  IF better(routes[2], routes[1]) THEN routes[2] ELSE routes[1]

BestRouteSwapped(routes, side) ==
  Reduce2(routes, IF side = "buy" THEN "sell" ELSE "buy")

BestRoute(routes, side) ==
  Reduce2(routes, side)

\* the outcome of one venue quote call: a price, or a rejection
QuotePending == [ok |-> FALSE, price |-> -1]
QuoteFailed == [ok |-> FALSE, price |-> 0]
QuoteOutcomes == {[ok |-> TRUE, price |-> v] : v \in Prices} \cup {QuoteFailed}

\* Promise.all rejects as soon as either quote call rejects
findBestRoute(rq, mq, side) ==
  IF ~rq.ok \/ ~mq.ok
    THEN [ok |-> FALSE, bestRoute |-> NoQuote]
    ELSE [ok |-> TRUE,
          bestRoute |-> BestRoute(<<Quote(RAYDIUM, rq.price), Quote(METEORA, mq.price)>>, side)]

----------------------------------------------------------------------------
(* DEXRouterService.executeOrder *)

\* Math.random() is in [0, 1): the least, a middle and the greatest slippage
Slippages == {SlippageMin, SlippageMin + SlippageSpan \div 2,
              SlippageMin + SlippageSpan - 1}

SlippageDirectionSwapped(side) == IF side = "buy" THEN -1 ELSE 1

SlippageDirection(side) == IF side = "buy" THEN 1 ELSE -1

\* route.price * (1 + slippage * slippageDirection), in units of 1 / SlipUnit
ExecutionPrice(price, slippage, side) ==
  price * (SlipUnit + slippage * SlippageDirection(side))

\* order.amount * (1 - slippage * 0.5), in units of 1 / (2 * SlipUnit)
ExecutedAmount(amount, slippage) ==
  amount * (2 * SlipUnit - slippage)

\* an ExecutionResult; -1 and "" stand for a field that is not set, `raised`
\* tells whether the call rejected instead of returning the result
NoResult == [called |-> FALSE, raised |-> FALSE, success |-> FALSE,
             executionPrice |-> -1, executedAmount |-> -1,
             transactionHash |-> "", errorMessage |-> ""]

\* the try block: throws when shouldFail, else computes the result
TryExecute(side, amount, route, shouldFail, slippage) ==
  IF shouldFail
    THEN [threw |-> TRUE, message |-> "execution failed: Insufficient liquidity",
          value |-> NoResult]
    ELSE [threw |-> FALSE, message |-> "",
          value |-> [NoResult EXCEPT !.called = TRUE, !.success = TRUE,
                       !.executionPrice = ExecutionPrice(route.price, slippage, side),
                       !.executedAmount = ExecutedAmount(amount, slippage),
                       !.transactionHash = "txhash"]]

executeOrderUncaught(side, amount, route, shouldFail, slippage) ==
  LET body == TryExecute(side, amount, route, shouldFail, slippage)
  IN IF body.threw
       THEN [NoResult EXCEPT !.called = TRUE, !.raised = TRUE]
       ELSE body.value

\* try { .. } catch (error) { return {success: false, errorMessage} }
executeOrder(side, amount, route, shouldFail, slippage) ==
  LET body == TryExecute(side, amount, route, shouldFail, slippage)
  IN IF body.threw
       THEN [NoResult EXCEPT !.called = TRUE, !.errorMessage = body.message]
       ELSE body.value

----------------------------------------------------------------------------
(* State *)

VARIABLES
  intake,        \* per order: position of the POST /orders/execute handler
  order,         \* per order: the Order object built by the handler
  dbStatus,      \* orders.status            ("none": no row)
  dbError,       \* orders.error_message     ("none": NULL)
  dbExec,        \* orders.selected_dex etc. ("none": NULL)
  wait,          \* BullMQ wait list, head first
  delayed,       \* per order: ticks until the retry is due, -1 if not delayed
  finished,      \* per order: "none", "completed" or "failed" (BullMQ sets)
  attemptsMade,  \* per order: job.attemptsMade
  started,       \* per order: calls of processOrder so far (history)
  workers,       \* per worker slot: the processOrder call it runs
  limCount,      \* limiter key: jobs started in the current limiter window
  limTTL,        \* limiter key: ticks until it expires, 0 if absent
  startsAgo,     \* starts per tick, the current tick first (history)
  connections,   \* WebSocketService.connections: registered connection ids
  connUser,      \* per connection id: the userId of its query string
  termCount,     \* per connection and order: terminal messages received
  subscribed,    \* per order: connections registered since its intake (history)
  faults,        \* infrastructure faults injected so far
  last,          \* what the latest persisting/publishing step did (history)
  scenario,      \* what the environment does in this run: orders, connections
  qR, qM, qSide, routed, \* RouterSpec: the two quotes, the side, the result
  qFirst,        \* RouterSpec: the venue whose quote call returned first (history)
  xReq, xRes,    \* RouterSpec: the executeOrder call and its result
  hist,          \* per order: latest published status, executor successes,
                 \* completion events (history)
  shut,          \* "running", "closing" (worker.close() pending) or "closed"
  rqBody,        \* IntakeSpec: the body of the POST /orders/execute request
  rqReply,       \* IntakeSpec: position of the handler, then its HTTP status
  rowAmount,     \* IntakeSpec: orders.amount of the created row
  jobAmount,     \* IntakeSpec: orderData.amount of the queued job
  stWaiting, stActive, stCompleted, stFailed,  \* StatsSpec: the four queries
  stResult,      \* StatsSpec: what getQueueStats returned
  wsUser,        \* WsSpec, per connection id: userId of its registry entry
  wsState,       \* WsSpec, per connection id: the socket, open or how closed
  wsAge,         \* WsSpec, per connection id: ticks since lastActivity
  wsInbox,       \* WsSpec, per connection id: messages the client received
  wsPub,         \* WsSpec, per user: events published so far
  wsLast,        \* WsSpec: what the latest publish did (history)
  rowStatus,     \* DbSpec: orders.status of the row, committed ("none": no row)
  events,        \* DbSpec: order_events of the row, committed, oldest first
  txPc,          \* DbSpec: position of updateOrderStatus in its transaction
  txNew, txOld,  \* DbSpec: the argument newStatus, the status it selected
  txRow, txEvents, \* DbSpec: the row and its events as the transaction sees them
  txBefore,      \* DbSpec: the committed row and events when the call began (history)
  txCalls        \* DbSpec: calls so far (history)

pipeVars == <<intake, order, dbStatus, dbError, dbExec, wait, delayed, finished,
              attemptsMade, started, workers, limCount, limTTL, startsAgo, connections,
              connUser, termCount, subscribed, faults, last, scenario, shut, hist>>
routerVars == <<qR, qM, qSide, routed, qFirst, xReq, xRes>>
intakeVars == <<rqBody, rqReply, rowAmount, jobAmount>>
statsVars == <<stWaiting, stActive, stCompleted, stFailed, stResult>>
wsVars == <<wsUser, wsState, wsAge, wsInbox, wsPub, wsLast>>
txVars == <<rowStatus, events, txPc, txNew, txOld, txRow, txEvents, txBefore, txCalls>>
sideVars == <<routerVars, intakeVars, statsVars, wsVars, txVars>>
vars == <<pipeVars, sideVars>>

Users == {"u1"}

\* a run is either several orders of users without a connection, or one
\* order of a user who opens connections, or one order while both venues
\* reject every quote call, or a run that ends with SIGTERM (one order with
\* infrastructure faults, or several orders without)
Scenarios ==
  {[orders |-> NumOrders, conns |-> 0, venues |-> "any", faults |-> MaxFaults,
    shutdown |-> FALSE],
   [orders |-> 1, conns |-> MaxConns, venues |-> "any", faults |-> MaxFaults,
    shutdown |-> FALSE],
   [orders |-> 1, conns |-> 0, venues |-> "down", faults |-> MaxFaults,
    shutdown |-> FALSE],
   [orders |-> 1, conns |-> 0, venues |-> "any", faults |-> MaxFaults,
    shutdown |-> TRUE],
   [orders |-> NumOrders, conns |-> 0, venues |-> "any", faults |-> 0,
    shutdown |-> TRUE]}

\* no order, no connection: the pipeline stays idle
NoRun == [orders |-> 0, conns |-> 0, venues |-> "any", faults |-> 0, shutdown |-> FALSE]
Sides == {"buy", "sell"}

\* a worker slot: the job, the position in processOrder, orderData.status,
\* the caught error, whether executeOrder succeeded, the chosen venue, and
\* the statuses published in this call (history)
Idle == [job |-> 0, pc |-> "idle", status |-> "none", err |-> "none",
         filled |-> FALSE, dex |-> "none", seen |-> <<>>]

NoOp == [op |-> "none", order |-> 0, attempt |-> 0, dbOld |-> "none", dbNew |-> "none",
         evOld |-> "none", evNew |-> "none", progress |-> 0, reason |-> "none",
         evPrev |-> "none", detail |-> "none", seen |-> <<>>, cause |-> "none",
         dropped |-> FALSE, threw |-> FALSE]

\* nothing published yet for an order: its status is Submitted (pending)
NoHistory == [published |-> PENDING, fills |-> 0, completions |-> 0]

PipeIdle ==
  /\ intake = [o \in Orders |-> "none"]
  /\ order = [o \in Orders |-> [userId |-> "none"]]
  /\ dbStatus = [o \in Orders |-> "none"]
  /\ dbError = [o \in Orders |-> "none"]
  /\ dbExec = [o \in Orders |-> "none"]
  /\ wait = <<>>
  /\ delayed = [o \in Orders |-> -1]
  /\ finished = [o \in Orders |-> "none"]
  /\ attemptsMade = [o \in Orders |-> 0]
  /\ started = [o \in Orders |-> 0]
  /\ workers = [s \in Slots |-> Idle]
  /\ limCount = 0
  /\ limTTL = 0
  /\ startsAgo = [i \in 1..RateDuration |-> 0]
  /\ connections = {}
  /\ connUser = [c \in ConnIds |-> "none"]
  /\ termCount = [c \in ConnIds |-> [o \in Orders |-> 0]]
  /\ subscribed = [o \in Orders |-> {}]
  /\ faults = 0
  /\ last = NoOp
  /\ shut = "running"
  /\ hist = [o \in Orders |-> NoHistory]

NotRouted == [ok |-> FALSE, bestRoute |-> [provider |-> "pending", price |-> 0]]

NoRequest == [side |-> "none", amount |-> 0, route |-> NoQuote]

RouterIdle ==
  /\ qR = QuotePending
  /\ qM = QuotePending
  /\ qSide = "buy"
  /\ routed = NotRouted
  /\ qFirst = "none"
  /\ xReq = NoRequest
  /\ xRes = NoResult

\* an amount: w + f / 100000 with f in 0..99999; `present` is FALSE where no
\* amount has been stored
Amt(w, f) == [present |-> TRUE, w |-> w, f |-> f]
NoAmount == [present |-> FALSE, w |-> 0, f |-> 0]

NoBody == [baseToken |-> "", quoteToken |-> "", amount |-> NoAmount]

IntakeIdle ==
  /\ rqBody = NoBody
  /\ rqReply = "none"
  /\ rowAmount = NoAmount
  /\ jobAmount = NoAmount

\* the outcome of one count query: not settled, rejected, or n jobs
QueryPending == [done |-> FALSE, ok |-> FALSE, n |-> 0]
QueryFailed == [done |-> TRUE, ok |-> FALSE, n |-> 0]
QueryOutcomes == {[done |-> TRUE, ok |-> TRUE, n |-> n] : n \in Counts} \cup {QueryFailed}

\* what getQueueStats gave its caller; -1 stands for a count that is absent
NoStats == [returned |-> FALSE, threw |-> FALSE, isNull |-> FALSE, waiting |-> -1,
            active |-> -1, completed |-> -1, failed |-> -1, total |-> -1]

StatsIdle ==
  /\ stWaiting = QueryPending
  /\ stActive = QueryPending
  /\ stCompleted = QueryPending
  /\ stFailed = QueryPending
  /\ stResult = NoStats

WsUsers == {"u1", "u2"}

\* no registry entry for any connection id
NoRegistry == [c \in WsConnIds |-> "none"]

\* what a publish or a sweep did: the registry before and after it, the
\* connections that were sent the event, those whose send failed, those found
\* stale, and whether the call threw
NoWsOp == [op |-> "none", user |-> "none", before |-> NoRegistry, after |-> NoRegistry,
           delivered |-> {}, failed |-> {}, stale |-> {}, threw |-> FALSE]

WsIdle ==
  /\ wsUser = NoRegistry
  /\ wsState = [c \in WsConnIds |-> "unused"]
  /\ wsAge = [c \in WsConnIds |-> 0]
  /\ wsInbox = [c \in WsConnIds |-> <<>>]
  /\ wsPub = [u \in WsUsers |-> 0]
  /\ wsLast = NoWsOp

\* no call of DatabaseService.updateOrderStatus
NoSnapshot == [status |-> "none", events |-> <<>>, failedAt |-> "none"]

TxIdle ==
  /\ rowStatus = "none"
  /\ events = <<>>
  /\ txPc = "idle"
  /\ txNew = "none"
  /\ txOld = "none"
  /\ txRow = "none"
  /\ txEvents = <<>>
  /\ txBefore = NoSnapshot
  /\ txCalls = 0

SideIdle == RouterIdle /\ IntakeIdle /\ StatsIdle /\ WsIdle /\ TxIdle

Init == PipeIdle /\ scenario \in Scenarios /\ SideIdle

----------------------------------------------------------------------------
(* WebSocketService *)

UserConns(u) == {c \in connections : connUser[c] = u}

\* sendToUser / sendToConnection: every registered connection of the user is
\* sent the message; a connection whose socket.send throws is deleted
SendToUser(u, o, terminal) ==
  \E bad \in SUBSET UserConns(u) :
    /\ connections' = connections \ bad
    /\ termCount' = [c \in ConnIds |->
         IF terminal /\ c \in UserConns(u) \ bad
           THEN [termCount[c] EXCEPT ![o] = @ + 1]
           ELSE termCount[c]]
    /\ subscribed' = [x \in Orders |-> subscribed[x] \ bad]

NoSend == UNCHANGED <<connections, termCount, subscribed>>

\* connections that the send of this step deleted
Dropped == connections \ connections'

sendRejectsUncaught(bad) == bad # {}

\* sendToConnection catches what socket.send throws and returns: whichever
\* sends fail, sendToUser and with it sendOrderUpdate and sendOrderCompletion
\* resolve
sendRejects(bad) == FALSE

\* the publish call of this step rejected
PublishThrows == sendRejects(Dropped)

\* GET /ws with a userId: the connection is stored under a fresh id
Connect(c) ==
  /\ c <= scenario.conns
  /\ connUser[c] = "none"
  /\ \E u \in Users : connUser' = [connUser EXCEPT ![c] = u]
  /\ connections' = connections \cup {c}
  /\ termCount' = termCount
  /\ UNCHANGED <<intake, order, dbStatus, dbError, dbExec, wait, delayed, finished,
                 attemptsMade, started, workers, limCount, limTTL, startsAgo, subscribed,
                 faults, last, hist, sideVars, scenario, shut>>

\* socket 'close' / 'error' event
Disconnect(c) ==
  /\ c \in connections
  /\ connections' = connections \ {c}
  /\ subscribed' = [x \in Orders |-> subscribed[x] \ {c}]
  /\ UNCHANGED <<intake, order, dbStatus, dbError, dbExec, wait, delayed, finished,
                 attemptsMade, started, workers, limCount, limTTL, startsAgo, connUser,
                 termCount, faults, last, hist, sideVars, scenario, shut>>

----------------------------------------------------------------------------
(* POST /orders/execute *)

CreateOrderSwallowsError(o) ==
  /\ shut = "running"
  /\ intake[o] = "none"
  /\ o <= scenario.orders
  /\ o > 1 => intake[o - 1] # "none"
  /\ \E u \in Users, ok \in BOOLEAN :
       /\ ~ok => faults < scenario.faults
       /\ faults' = IF ok THEN faults ELSE faults + 1
       /\ order' = [order EXCEPT ![o] = [userId |-> u]]
       /\ intake' = [intake EXCEPT ![o] = "created"]
       /\ dbStatus' = [dbStatus EXCEPT ![o] = IF ok THEN PENDING ELSE @]
       /\ subscribed' = [subscribed EXCEPT ![o] = IF ok THEN UserConns(u) ELSE {}]
  /\ UNCHANGED <<dbError, dbExec, wait, delayed, finished, attemptsMade, started, workers,
                 limCount, limTTL, startsAgo, connections, connUser, termCount,
                 last, hist, sideVars, scenario, shut>>

\* databaseService.createOrder(newOrder); a database error answers 500
CreateOrder(o) ==
  /\ shut = "running"
  /\ intake[o] = "none"
  /\ o <= scenario.orders
  /\ o > 1 => intake[o - 1] # "none"
  /\ \E u \in Users, ok \in BOOLEAN :
       /\ ~ok => faults < scenario.faults
       /\ faults' = IF ok THEN faults ELSE faults + 1
       /\ order' = [order EXCEPT ![o] = [userId |-> u]]
       /\ intake' = [intake EXCEPT ![o] = IF ok THEN "created" ELSE "error500"]
       /\ dbStatus' = [dbStatus EXCEPT ![o] = IF ok THEN PENDING ELSE @]
       /\ subscribed' = [subscribed EXCEPT ![o] = IF ok THEN UserConns(u) ELSE {}]
  /\ UNCHANGED <<dbError, dbExec, wait, delayed, finished, attemptsMade, started, workers,
                 limCount, limTTL, startsAgo, connections, connUser, termCount,
                 last, hist, sideVars, scenario, shut>>

\* addOrderToQueue, first half: queue.add; a queue error answers 503
Enqueue(o) ==
  /\ intake[o] = "created"
  /\ \E ok \in BOOLEAN :
       /\ ~ok => faults < scenario.faults
       /\ faults' = IF ok THEN faults ELSE faults + 1
       /\ intake' = [intake EXCEPT ![o] = IF ok THEN "queued" ELSE "error503"]
       /\ wait' = IF ok THEN Append(wait, o) ELSE wait
  /\ UNCHANGED <<order, dbStatus, dbError, dbExec, delayed, finished, attemptsMade,
                 started, workers, limCount, limTTL, startsAgo, connections, connUser,
                 termCount, subscribed, last, hist, sideVars, scenario, shut>>

\* addOrderToQueue, second half: the 'queued' notification
NotifyQueued(o) ==
  /\ intake[o] = "queued"
  /\ SendToUser(order[o].userId, o, FALSE)
  /\ intake' = [intake EXCEPT ![o] = IF PublishThrows THEN "error503" ELSE "done"]
  /\ last' = [NoOp EXCEPT !.op = "queued", !.order = o, !.evOld = PENDING,
                          !.evNew = PENDING, !.progress = 10,
                          !.dropped = Dropped # {}, !.threw = PublishThrows]
  /\ UNCHANGED <<order, dbStatus, dbError, dbExec, wait, delayed, finished,
                 attemptsMade, started, workers, limCount, limTTL, startsAgo, connUser,
                 faults, hist, sideVars, scenario, shut>>

----------------------------------------------------------------------------
(* BullMQ queue and worker (options of initializeWorker and addOrderToQueue) *)

LimiterBlocksLate == limCount > RateMax /\ limTTL > 0

\* the limiter holds back the next job once `max` jobs started in its window
LimiterBlocks == limCount >= RateMax /\ limTTL > 0

LowestIdle(s) ==
  /\ workers[s].pc = "idle"
  /\ \A t \in Slots : t < s => workers[t].pc # "idle"

\* job option backoff {type: 'exponential', delay}: delay * 2^(attemptsMade - 1)
Backoff(made) == BackoffDelay * 2 ^ (made - 1)

\* a worker takes the job at the head of the wait list and calls processOrder;
\* job.data is read from the queue, so orderData is as it was enqueued
Dequeue(s) ==
  /\ shut = "running"
  /\ wait # <<>>
  /\ LowestIdle(s)
  /\ ~LimiterBlocks
  /\ workers' = [workers EXCEPT ![s] =
                   [Idle EXCEPT !.job = Head(wait), !.pc = "processing", !.status = PENDING]]
  /\ wait' = Tail(wait)
  /\ limCount' = limCount + 1
  /\ limTTL' = IF limCount = 0 THEN RateDuration ELSE limTTL
  /\ startsAgo' = [startsAgo EXCEPT ![1] = @ + 1]
  /\ started' = [started EXCEPT ![Head(wait)] = @ + 1]
  /\ UNCHANGED <<intake, order, dbStatus, dbError, dbExec, delayed, finished,
                 attemptsMade, connections, connUser, termCount, subscribed,
                 faults, last, hist, sideVars, scenario, shut>>

\* one tick of the clock: the limiter key and the retry delays run down
Tick ==
  /\ limTTL' = IF limTTL > 0 THEN limTTL - 1 ELSE 0
  /\ limCount' = IF limTTL <= 1 THEN 0 ELSE limCount
  /\ delayed' = [o \in Orders |-> IF delayed[o] > 0 THEN delayed[o] - 1 ELSE delayed[o]]
  /\ startsAgo' = [i \in 1..RateDuration |-> IF i = 1 THEN 0 ELSE startsAgo[i - 1]]
  /\ UNCHANGED <<intake, order, dbStatus, dbError, dbExec, wait, finished,
                 attemptsMade, started, workers, connections, connUser, termCount,
                 subscribed, faults, last, hist, sideVars, scenario, shut>>

PromoteKeepsDelayed(o) ==
  /\ delayed[o] = 0
  /\ delayed' = delayed
  /\ wait' = Append(wait, o)
  /\ UNCHANGED <<intake, order, dbStatus, dbError, dbExec, finished, attemptsMade,
                 started, workers, limCount, limTTL, startsAgo, connections, connUser,
                 termCount, subscribed, faults, last, hist, sideVars, scenario, shut>>

\* a delayed job whose backoff has elapsed goes back to the wait list
Promote(o) ==
  /\ delayed[o] = 0
  /\ delayed' = [delayed EXCEPT ![o] = -1]
  /\ wait' = Append(wait, o)
  /\ UNCHANGED <<intake, order, dbStatus, dbError, dbExec, finished, attemptsMade,
                 started, workers, limCount, limTTL, startsAgo, connections, connUser,
                 termCount, subscribed, faults, last, hist, sideVars, scenario, shut>>

JobFailedOffByOne(s) ==
  LET o == workers[s].job
      made == attemptsMade[o] + 1
  IN /\ attemptsMade' = [attemptsMade EXCEPT ![o] = made]
     /\ IF made <= Attempts
          THEN /\ delayed' = [delayed EXCEPT ![o] = Backoff(made)]
               /\ finished' = finished
          ELSE /\ finished' = [finished EXCEPT ![o] = "failed"]
               /\ delayed' = delayed

\* processOrder threw: the job is retried after its backoff while attempts
\* are left (job option attempts), else it is moved to the failed set
JobFailed(s) ==
  LET o == workers[s].job
      made == attemptsMade[o] + 1
  IN /\ attemptsMade' = [attemptsMade EXCEPT ![o] = made]
     /\ IF made < Attempts
          THEN /\ delayed' = [delayed EXCEPT ![o] = Backoff(made)]
               /\ finished' = finished
          ELSE /\ finished' = [finished EXCEPT ![o] = "failed"]
               /\ delayed' = delayed

\* processOrder returned: the job is moved to the completed set
JobCompleted(s) ==
  LET o == workers[s].job
  IN /\ attemptsMade' = [attemptsMade EXCEPT ![o] = @ + 1]
     /\ finished' = [finished EXCEPT ![o] = "completed"]
     /\ delayed' = delayed

----------------------------------------------------------------------------
(* DatabaseService *)

DbUpdateOrderStatusKeepsError(o, newStatus, errorMessage) ==
  /\ dbStatus' = [dbStatus EXCEPT ![o] = newStatus]
  /\ dbError' = [dbError EXCEPT ![o] = IF errorMessage = "none" THEN @ ELSE errorMessage]
  /\ dbExec' = dbExec

\* updateOrderStatus: status and error_message are both overwritten
DbUpdateOrderStatus(o, newStatus, errorMessage) ==
  /\ dbStatus' = [dbStatus EXCEPT ![o] = newStatus]
  /\ dbError' = [dbError EXCEPT ![o] = errorMessage]
  /\ dbExec' = dbExec

\* updateOrderExecution: the execution columns and the status are written
DbUpdateOrderExecution(o, dex) ==
  /\ dbStatus' = [dbStatus EXCEPT ![o] = COMPLETED]
  /\ dbExec' = [dbExec EXCEPT ![o] = dex]
  /\ dbError' = dbError

DbUnchanged == UNCHANGED <<dbStatus, dbError, dbExec>>

----------------------------------------------------------------------------
(* OrderQueueService.processOrder, one action per awaited phase *)

Attempt(o) == attemptsMade[o] + 1

QueueKeep == UNCHANGED <<attemptsMade, delayed, finished>>

\* what no step of processOrder touches; no step runs once the process has
\* exited
StepFrame ==
  /\ shut # "closed"
  /\ UNCHANGED <<intake, order, wait, started, limCount, limTTL, startsAgo, connUser,
                 sideVars, scenario, shut>>

\* how the attempt of worker record w has gone so far
Cause(w) ==
  CASE w.err = "route" -> "routingFailure"
    [] w.err = "exec" -> "executorFailure"
    [] w.filled -> "executorSuccess"
    [] OTHER -> "none"

OpOf(s) ==
  [NoOp EXCEPT !.order = workers[s].job, !.attempt = Attempt(workers[s].job),
               !.seen = workers[s].seen, !.cause = Cause(workers[s])]

Persisted(s, newStatus) ==
  [OpOf(s) EXCEPT !.op = "persist", !.dbOld = dbStatus[workers[s].job],
                  !.dbNew = newStatus]

Published(rec, old, newStatus, why) ==
  [rec EXCEPT !.op = "status", !.evOld = old, !.evNew = newStatus,
              !.evPrev = hist[rec.order].published,
              !.progress = getProgressForStatus(newStatus), !.reason = why,
              !.dropped = Dropped # {}, !.threw = PublishThrows]

\* the status event for order o has gone out
Publish(o, newStatus) == hist' = [hist EXCEPT ![o].published = newStatus]

PersistFailed(s) == [OpOf(s) EXCEPT !.op = "dbfail"]

UpdateOrderStatusNotifyOnly(s, newStatus, why) ==
  LET w == workers[s]
      o == w.job
  IN /\ DbUnchanged
     /\ SendToUser(order[o].userId, o, Terminal(newStatus))
     /\ last' = Published(Persisted(s, newStatus), w.status, newStatus, why)
     /\ Publish(o, newStatus)

\* updateOrderStatus(order, newStatus, message) with a database that answers:
\* the row is written, then the event is sent
UpdateOrderStatus(s, newStatus, why) ==
  LET w == workers[s]
      o == w.job
  IN /\ DbUpdateOrderStatus(o, newStatus, "none")
     /\ SendToUser(order[o].userId, o, Terminal(newStatus))
     /\ last' = Published(Persisted(s, newStatus), w.status, newStatus, why)
     /\ Publish(o, newStatus)

\* `await updateOrderStatus(..); await job.updateProgress(..)` of the try block
StatusStep(s, newStatus, next) ==
  LET w == workers[s]
      o == w.job
  IN /\ \E out \in {"ok", "dbFail", "progressFail"} :
          /\ out # "ok" => faults < scenario.faults
          /\ faults' = IF out = "ok" THEN faults ELSE faults + 1
          /\ IF out = "dbFail"
               THEN /\ DbUnchanged
                    /\ NoSend
                    /\ last' = PersistFailed(s)
                    /\ hist' = hist
                    /\ workers' = [workers EXCEPT ![s] =
                         [w EXCEPT !.status = newStatus, !.pc = "catch1", !.err = "db"]]
               ELSE /\ UpdateOrderStatus(s, newStatus, "none")
                    /\ workers' = [workers EXCEPT ![s] =
                         [w EXCEPT !.status = newStatus, !.seen = Append(@, newStatus),
                                   !.pc = IF out = "ok" /\ ~PublishThrows
                                            THEN next ELSE "catch1",
                                   !.err = CASE PublishThrows -> "notify"
                                             [] out = "ok" -> @
                                             [] OTHER -> "redis"]]
     /\ QueueKeep
     /\ StepFrame

\* Step 1: PROCESSING, progress 20
StepProcessing(s) ==
  /\ workers[s].pc = "processing"
  /\ StatusStep(s, PROCESSING, "routing")

StepRoutingWrongStatus(s) ==
  /\ workers[s].pc = "routing"
  /\ StatusStep(s, EXECUTING, "findRoute")

\* Step 2: ROUTING, progress 40
StepRouting(s) ==
  /\ workers[s].pc = "routing"
  /\ StatusStep(s, ROUTING, "findRoute")

\* Step 3: EXECUTING, progress 70
StepExecuting(s) ==
  /\ workers[s].pc = "executing"
  /\ StatusStep(s, EXECUTING, "execute")

\* Step 4: COMPLETED, progress 100
StepCompleted(s) ==
  /\ workers[s].pc = "completed"
  /\ StatusStep(s, COMPLETED, "persistExec")

\* what a venue quote call can answer in this run
VenueOutcomes == IF scenario.venues = "down" THEN {QuoteFailed} ELSE QuoteOutcomes

\* routingResult = await this.dexRouter.findBestRoute(..); the order's side is
\* read only here, so it is drawn here
StepFindRoute(s) ==
  LET w == workers[s]
  IN /\ w.pc = "findRoute"
     /\ \E a \in VenueOutcomes, b \in VenueOutcomes, sd \in Sides :
          LET r == findBestRoute(a, b, sd)
          IN workers' = [workers EXCEPT ![s] =
               IF r.ok THEN [w EXCEPT !.dex = r.bestRoute.provider, !.pc = "executing"]
                       ELSE [w EXCEPT !.err = "route", !.pc = "catch1"]]
     /\ DbUnchanged /\ NoSend /\ QueueKeep /\ StepFrame
     /\ UNCHANGED <<faults, last, hist>>

\* executionResult = await this.dexRouter.executeOrder(..); a result with
\* success = false is thrown as an Error
StepExecute(s) ==
  LET w == workers[s]
  IN /\ w.pc = "execute"
     /\ \E success \in BOOLEAN :
          /\ workers' = [workers EXCEPT ![s] =
               IF success THEN [w EXCEPT !.filled = TRUE, !.pc = "completed"]
                          ELSE [w EXCEPT !.err = "exec", !.pc = "catch1"]]
          /\ hist' = [hist EXCEPT ![w.job].fills = IF success THEN @ + 1 ELSE @]
     /\ DbUnchanged /\ NoSend /\ QueueKeep /\ StepFrame
     /\ UNCHANGED <<faults, last>>

\* await this.database.updateOrderExecution(orderId, {...})
StepPersistExecution(s) ==
  LET w == workers[s]
      o == w.job
  IN /\ w.pc = "persistExec"
     /\ \E ok \in BOOLEAN :
          /\ ~ok => faults < scenario.faults
          /\ faults' = IF ok THEN faults ELSE faults + 1
          /\ IF ok
               THEN /\ DbUpdateOrderExecution(o, w.dex)
                    /\ last' = Persisted(s, COMPLETED)
                    /\ workers' = [workers EXCEPT ![s] = [w EXCEPT !.pc = "sendCompletion"]]
               ELSE /\ DbUnchanged
                    /\ last' = PersistFailed(s)
                    /\ workers' = [workers EXCEPT ![s] =
                         [w EXCEPT !.pc = "catch1", !.err = "db"]]
     /\ NoSend /\ QueueKeep /\ StepFrame
     /\ UNCHANGED hist

\* await this.websocketService.sendOrderCompletion(..); return executionResult
StepSendCompletion(s) ==
  LET w == workers[s]
      o == w.job
  IN /\ w.pc = "sendCompletion"
     /\ SendToUser(order[o].userId, o, TRUE)
     /\ last' = [OpOf(s) EXCEPT !.op = "completion", !.detail = w.dex,
                               !.dropped = Dropped # {}, !.threw = PublishThrows]
     /\ hist' = [hist EXCEPT ![o].completions = @ + 1]
     /\ IF PublishThrows
          THEN /\ QueueKeep
               /\ workers' = [workers EXCEPT ![s] =
                    [w EXCEPT !.pc = "catch1", !.err = "notify"]]
          ELSE /\ JobCompleted(s)
               /\ workers' = [workers EXCEPT ![s] = Idle]
     /\ DbUnchanged /\ StepFrame
     /\ UNCHANGED faults

\* catch: await this.updateOrderStatus(orderData, FAILED, ..)
Catch1(s) ==
  LET w == workers[s]
      o == w.job
  IN /\ w.pc = "catch1"
     /\ \E ok \in BOOLEAN :
          /\ ~ok => faults < scenario.faults
          /\ faults' = IF ok THEN faults ELSE faults + 1
          /\ IF ok
               THEN /\ UpdateOrderStatus(s, FAILED, w.err)
                    /\ IF PublishThrows
                         THEN /\ JobFailed(s)
                              /\ workers' = [workers EXCEPT ![s] = Idle]
                         ELSE /\ workers' = [workers EXCEPT ![s] =
                                   [w EXCEPT !.status = FAILED, !.pc = "catch2"]]
                              /\ QueueKeep
               ELSE /\ DbUnchanged
                    /\ NoSend
                    /\ last' = PersistFailed(s)
                    /\ hist' = hist
                    /\ JobFailed(s)
                    /\ workers' = [workers EXCEPT ![s] = Idle]
     /\ StepFrame

Catch2DropsReason(s) ==
  LET w == workers[s]
      o == w.job
  IN /\ w.pc = "catch2"
     /\ \E ok \in BOOLEAN :
          /\ ~ok => faults < scenario.faults
          /\ faults' = IF ok THEN faults ELSE faults + 1
          /\ IF ok
               THEN /\ DbUpdateOrderStatus(o, FAILED, "none")
                    /\ last' = Persisted(s, FAILED)
                    /\ workers' = [workers EXCEPT ![s] = [w EXCEPT !.pc = "catch3"]]
                    /\ QueueKeep
               ELSE /\ DbUnchanged
                    /\ last' = PersistFailed(s)
                    /\ JobFailed(s)
                    /\ workers' = [workers EXCEPT ![s] = Idle]
     /\ NoSend /\ StepFrame
     /\ UNCHANGED hist

\* catch: await this.database.updateOrderStatus(orderId, FAILED, errorMessage)
Catch2(s) ==
  LET w == workers[s]
      o == w.job
  IN /\ w.pc = "catch2"
     /\ \E ok \in BOOLEAN :
          /\ ~ok => faults < scenario.faults
          /\ faults' = IF ok THEN faults ELSE faults + 1
          /\ IF ok
               THEN /\ DbUpdateOrderStatus(o, FAILED, w.err)
                    /\ last' = Persisted(s, FAILED)
                    /\ workers' = [workers EXCEPT ![s] = [w EXCEPT !.pc = "catch3"]]
                    /\ QueueKeep
               ELSE /\ DbUnchanged
                    /\ last' = PersistFailed(s)
                    /\ JobFailed(s)
                    /\ workers' = [workers EXCEPT ![s] = Idle]
     /\ NoSend /\ StepFrame
     /\ UNCHANGED hist

\* catch: await this.websocketService.sendOrderUpdate(userId, {oldStatus:
\* EXECUTING, newStatus: FAILED, ..}); throw error
Catch3(s) ==
  LET w == workers[s]
      o == w.job
  IN /\ w.pc = "catch3"
     /\ SendToUser(order[o].userId, o, TRUE)
     /\ last' = Published(OpOf(s), EXECUTING, FAILED, w.err)
     /\ Publish(o, FAILED)
     /\ JobFailed(s)
     /\ workers' = [workers EXCEPT ![s] = Idle]
     /\ DbUnchanged /\ StepFrame
     /\ UNCHANGED faults

----------------------------------------------------------------------------
(* setupGracefulShutdown and OrderQueueService.shutdown *)

ShutdownFrame ==
  UNCHANGED <<intake, order, dbStatus, dbError, dbExec, wait, delayed, finished,
              attemptsMade, started, workers, limCount, limTTL, startsAgo, connections,
              connUser, termCount, subscribed, last, hist, sideVars, scenario>>

\* SIGTERM: app.close() has let the requests in flight finish, then shutdown()
\* awaits worker.close(), which takes no further job; when that call rejects,
\* the catch of shutdown() logs it, shutdown() returns and the process exits
ShutdownBegin ==
  /\ scenario.shutdown
  /\ shut = "running"
  /\ \A o \in Orders : intake[o] \notin {"created", "queued"}
  /\ \E ok \in BOOLEAN :
       /\ ~ok => faults < scenario.faults
       /\ faults' = IF ok THEN faults ELSE faults + 1
       /\ shut' = IF ok THEN "closing" ELSE "closed"
  /\ ShutdownFrame

\* worker.close() resolves once the jobs being processed have finished; then
\* shutdown() returns and the process exits
ShutdownReturn ==
  /\ shut = "closing"
  /\ \A s \in Slots : workers[s].pc = "idle"
  /\ shut' = "closed"
  /\ faults' = faults
  /\ ShutdownFrame

----------------------------------------------------------------------------
(* Specifications *)

WorkerStep(s) ==
  \/ StepProcessing(s) \/ StepRouting(s) \/ StepFindRoute(s) \/ StepExecuting(s)
  \/ StepExecute(s) \/ StepCompleted(s) \/ StepPersistExecution(s)
  \/ StepSendCompletion(s) \/ Catch1(s) \/ Catch2(s) \/ Catch3(s)

Next ==
  \/ \E o \in Orders : CreateOrder(o) \/ Enqueue(o) \/ NotifyQueued(o) \/ Promote(o)
  \/ \E s \in Slots : Dequeue(s) \/ WorkerStep(s)
  \/ \E c \in ConnIds : Connect(c) \/ Disconnect(c)
  \/ Tick
  \/ ShutdownBegin \/ ShutdownReturn

Spec == Init /\ [][Next]_vars

----------------------------------------------------------------------------
(* One POST /orders/execute request, from the body to the queued job *)

AmtLess(a, b) == a.w < b.w \/ (a.w = b.w /\ a.f < b.f)

\* Math.min
AmtMin(a, b) == IF AmtLess(b, a) THEN b ELSE a

\* schema and handler: minimum 0.0001, maximum 1000000
AmountFloor == Amt(0, 10)
AmountCeiling == Amt(1000000, 0)
\* createOrder: Math.min(order.amount, 999999)
DbAmountCap == Amt(999999, 0)

validTokens == {"SOL", "USDC", "USDT", "BONK", "RAY", "ORCA"}

\* String.prototype.toUpperCase on the symbols that requests carry here
toUpperCase(t) ==
  CASE t = "usdc" -> "USDC"
    [] t = "sol" -> "SOL"
    [] OTHER -> t

\* request bodies: symbols in either case, an unsupported one and an empty
\* one; amounts below, at and above the floor, the cap and the ceiling
BodyTokens == {"SOL", "sol", "USDC", "usdc", "DOGE", ""}
BodyAmounts == {Amt(-1, 0), Amt(0, 0), Amt(0, 5), Amt(0, 10), Amt(1, 0),
                Amt(999999, 0), Amt(999999, 50000), Amt(1000000, 0),
                Amt(1000000, 1), Amt(1000001, 0)}
Bodies == [baseToken : BodyTokens, quoteToken : BodyTokens, amount : BodyAmounts]

\* the route's body schema: minLength 1 for the symbols, minimum and maximum
\* for the amount
SchemaAccepts(body) ==
  /\ body.baseToken # ""
  /\ body.quoteToken # ""
  /\ ~AmtLess(body.amount, AmountFloor)
  /\ ~AmtLess(AmountCeiling, body.amount)

SamePairExact(baseToken, quoteToken) == baseToken = quoteToken

\* baseToken.toUpperCase() === quoteToken.toUpperCase()
SamePair(baseToken, quoteToken) == toUpperCase(baseToken) = toUpperCase(quoteToken)

\* the handler's own checks, in their order; TRUE when one of them answers 400
HandlerRejects(body) ==
  \/ AmtLess(AmountCeiling, body.amount)
  \/ AmtLess(body.amount, AmountFloor)
  \/ ~AmtLess(Amt(0, 0), body.amount)
  \/ toUpperCase(body.baseToken) \notin validTokens
  \/ toUpperCase(body.quoteToken) \notin validTokens
  \/ SamePair(body.baseToken, body.quoteToken)

IntakeInit ==
  /\ PipeIdle /\ RouterIdle /\ StatsIdle /\ WsIdle /\ TxIdle
  /\ scenario = NoRun
  /\ rqBody \in Bodies
  /\ rqReply = "received"
  /\ rowAmount = NoAmount
  /\ jobAmount = NoAmount

IntakeFrame == UNCHANGED <<pipeVars, routerVars, statsVars, wsVars, txVars>>

\* Fastify validates the body against the schema before the handler runs
SchemaValidate ==
  /\ rqReply = "received"
  /\ rqReply' = IF SchemaAccepts(rqBody) THEN "handler" ELSE "400"
  /\ UNCHANGED <<rqBody, rowAmount, jobAmount>>
  /\ IntakeFrame

\* the handler up to `const orderId = uuidv4()`
HandlerValidate ==
  /\ rqReply = "handler"
  /\ rqReply' = IF HandlerRejects(rqBody) THEN "400" ELSE "valid"
  /\ UNCHANGED <<rqBody, rowAmount, jobAmount>>
  /\ IntakeFrame

\* await databaseService.createOrder(newOrder)
HandlerCreateOrder ==
  /\ rqReply = "valid"
  /\ \E ok \in BOOLEAN :
       /\ rqReply' = IF ok THEN "created" ELSE "500"
       /\ rowAmount' = IF ok THEN AmtMin(rqBody.amount, DbAmountCap) ELSE rowAmount
  /\ UNCHANGED <<rqBody, jobAmount>>
  /\ IntakeFrame

\* await orderQueueService.addOrderToQueue(newOrder): the job carries the
\* Order object, which processOrder hands to the router and the executor
HandlerEnqueue ==
  /\ rqReply = "created"
  /\ \E ok \in BOOLEAN :
       /\ rqReply' = IF ok THEN "201" ELSE "503"
       /\ jobAmount' = IF ok THEN rqBody.amount ELSE jobAmount
  /\ UNCHANGED <<rqBody, rowAmount>>
  /\ IntakeFrame

IntakeNext == SchemaValidate \/ HandlerValidate \/ HandlerCreateOrder \/ HandlerEnqueue

IntakeSpec == IntakeInit /\ [][IntakeNext]_vars

----------------------------------------------------------------------------
(* WebSocketService with several users and connections *)

ConnectionEstablished(c, u) ==
  [type |-> "connection_established", user |-> u, n |-> c, order |-> 0]

\* the n-th order event published for user u, about order o
OrderEvent(u, n, o) ==
  [type |-> "order_status_update", user |-> u, n |-> n, order |-> o]

Registered == {c \in WsConnIds : wsUser[c] # "none"}

AcceptsAnyUser(userId) == TRUE

\* if (!userId) { socket.close(1008, ..); return }
AcceptsUser(userId) == userId # ""

userConnectionsAll(reg, userId) == {c \in DOMAIN reg : reg[c] # "none"}

\* Array.from(this.connections.entries()).filter(conn.userId === userId)
userConnections(reg, userId) == {c \in DOMAIN reg : reg[c] = userId}

sendToConnectionKeeps(sendOk) == [delivered |-> sendOk, kept |-> TRUE]

\* try { socket.send(..) } catch { this.connections.delete(connectionId) }
sendToConnection(sendOk) == [delivered |-> sendOk, kept |-> sendOk]

sendToUserThrowsOnNone(reg, userId, bad) ==
  LET conns == userConnections(reg, userId)
  IN [after |-> [c \in DOMAIN reg |->
                   IF c \in conns /\ ~sendToConnection(c \notin bad).kept
                     THEN "none" ELSE reg[c]],
      delivered |-> {c \in conns : sendToConnection(c \notin bad).delivered},
      failed |-> conns \cap bad,
      threw |-> conns = {}]

\* sendToUser: nothing to do without a connection of the user, else every
\* connection of the user is sent the message; `bad` are the connections
\* whose socket.send throws
sendToUser(reg, userId, bad) ==
  LET conns == userConnections(reg, userId)
  IN [after |-> [c \in DOMAIN reg |->
                   IF c \in conns /\ ~sendToConnection(c \notin bad).kept
                     THEN "none" ELSE reg[c]],
      delivered |-> {c \in conns : sendToConnection(c \notin bad).delivered},
      failed |-> conns \cap bad,
      threw |-> FALSE]

DeliverFirst(inbox, message) == <<message>> \o inbox

\* socket.send: the client receives the message after those sent before
Deliver(inbox, message) == Append(inbox, message)

WsInit ==
  /\ PipeIdle /\ RouterIdle /\ IntakeIdle /\ StatsIdle /\ TxIdle
  /\ scenario = NoRun
  /\ WsIdle

WsFrame == UNCHANGED <<pipeVars, routerVars, intakeVars, statsVars, txVars>>

\* GET /ws: without a userId the socket is closed with 1008; else the
\* connection is stored under a fresh id and sent connection_established
WsConnect(c) ==
  /\ wsState[c] = "unused"
  /\ \A d \in WsConnIds : d < c => wsState[d] # "unused"
  /\ \E userId \in WsUsers \cup {""}, sendOk \in BOOLEAN :
       IF ~AcceptsUser(userId)
         THEN /\ wsState' = [wsState EXCEPT ![c] = "closed1008"]
              /\ UNCHANGED <<wsUser, wsInbox>>
         ELSE LET sent == sendToConnection(sendOk)
              IN /\ wsUser' = [wsUser EXCEPT ![c] = IF sent.kept THEN userId ELSE "none"]
                 /\ wsState' = [wsState EXCEPT ![c] = IF sent.kept THEN "open" ELSE "broken"]
                 /\ wsInbox' = [wsInbox EXCEPT ![c] =
                      IF sent.delivered THEN Deliver(@, ConnectionEstablished(c, userId))
                                        ELSE @]
  /\ UNCHANGED <<wsAge, wsPub, wsLast>>
  /\ WsFrame

\* socket 'close' / 'error' event: the entry is deleted
WsDisconnect(c) ==
  /\ c \in Registered
  /\ wsUser' = [wsUser EXCEPT ![c] = "none"]
  /\ wsState' = [wsState EXCEPT ![c] = "closed"]
  /\ UNCHANGED <<wsAge, wsInbox, wsPub, wsLast>>
  /\ WsFrame

\* handleClientMessage with a message other than ping: lastActivity is set
WsClientMessage(c) ==
  /\ c \in Registered
  /\ wsAge[c] > 0
  /\ wsAge' = [wsAge EXCEPT ![c] = 0]
  /\ UNCHANGED <<wsUser, wsState, wsInbox, wsPub, wsLast>>
  /\ WsFrame

\* sendOrderUpdate / sendOrderCompletion for an order of user userId
WsPublish(userId, o) ==
  /\ wsPub["u1"] + wsPub["u2"] < WsMaxEvents
  /\ \E bad \in SUBSET userConnections(wsUser, userId) :
       LET sent == sendToUser(wsUser, userId, bad)
           event == OrderEvent(userId, wsPub[userId] + 1, o)
       IN /\ wsUser' = sent.after
          /\ wsState' = [c \in WsConnIds |->
               IF c \in sent.failed /\ sent.after[c] = "none" THEN "broken" ELSE wsState[c]]
          /\ wsInbox' = [c \in WsConnIds |->
               IF c \in sent.delivered THEN Deliver(wsInbox[c], event) ELSE wsInbox[c]]
          /\ wsAge' = [c \in WsConnIds |-> IF c \in sent.delivered THEN 0 ELSE wsAge[c]]
          /\ wsLast' = [NoWsOp EXCEPT !.op = "publish", !.user = userId, !.before = wsUser,
                                       !.after = sent.after, !.delivered = sent.delivered,
                                       !.failed = sent.failed, !.threw = sent.threw]
  /\ wsPub' = [wsPub EXCEPT ![userId] = @ + 1]
  /\ WsFrame

\* one sweep interval passes
WsTick ==
  /\ \E c \in Registered : wsAge[c] <= StaleThreshold
  /\ wsAge' = [c \in WsConnIds |->
       IF c \in Registered /\ wsAge[c] <= StaleThreshold THEN wsAge[c] + 1 ELSE wsAge[c]]
  /\ UNCHANGED <<wsUser, wsState, wsInbox, wsPub, wsLast>>
  /\ WsFrame

\* the setInterval callback of setupHeartbeat: every connection whose
\* lastActivity is older than staleThreshold is closed with 1000 and deleted
WsSweep ==
  /\ Registered # {}
  /\ LET stale == {c \in Registered : wsAge[c] > StaleThreshold}
     IN /\ wsUser' = [c \in WsConnIds |-> IF c \in stale THEN "none" ELSE wsUser[c]]
        /\ wsState' = [c \in WsConnIds |-> IF c \in stale THEN "closed1000" ELSE wsState[c]]
        /\ wsLast' = [NoWsOp EXCEPT !.op = "sweep", !.before = wsUser, !.after = wsUser',
                                     !.stale = stale]
  /\ UNCHANGED <<wsAge, wsInbox, wsPub>>
  /\ WsFrame

WsNext ==
  \/ \E c \in WsConnIds : WsConnect(c) \/ WsDisconnect(c) \/ WsClientMessage(c)
  \/ \E u \in WsUsers, o \in Orders : WsPublish(u, o)
  \/ WsTick
  \/ WsSweep

WsSpec == WsInit /\ [][WsNext]_vars

----------------------------------------------------------------------------
(* One call of OrderQueueService.getQueueStats *)

StatsInit ==
  /\ PipeIdle /\ RouterIdle /\ IntakeIdle /\ WsIdle /\ TxIdle
  /\ scenario = NoRun
  /\ StatsIdle

StatsFrame == UNCHANGED <<pipeVars, routerVars, intakeVars, wsVars, txVars>>

\* this.queue.getWaiting() settles
GetWaiting ==
  /\ ~stResult.returned
  /\ stWaiting = QueryPending
  /\ stWaiting' \in QueryOutcomes
  /\ UNCHANGED <<stActive, stCompleted, stFailed, stResult>>
  /\ StatsFrame

\* this.queue.getActive() settles
GetActive ==
  /\ ~stResult.returned
  /\ stActive = QueryPending
  /\ stActive' \in QueryOutcomes
  /\ UNCHANGED <<stWaiting, stCompleted, stFailed, stResult>>
  /\ StatsFrame

\* this.queue.getCompleted() settles
GetCompleted ==
  /\ ~stResult.returned
  /\ stCompleted = QueryPending
  /\ stCompleted' \in QueryOutcomes
  /\ UNCHANGED <<stWaiting, stActive, stFailed, stResult>>
  /\ StatsFrame

\* this.queue.getFailed() settles
GetFailed ==
  /\ ~stResult.returned
  /\ stFailed = QueryPending
  /\ stFailed' \in QueryOutcomes
  /\ UNCHANGED <<stWaiting, stActive, stCompleted, stResult>>
  /\ StatsFrame

\* try { await Promise.all([..]); return {..} } catch { return null }
getQueueStats(waiting, active, completed, failed) ==
  IF waiting.ok /\ active.ok /\ completed.ok /\ failed.ok
    THEN [NoStats EXCEPT !.returned = TRUE, !.waiting = waiting.n, !.active = active.n,
                         !.completed = completed.n, !.failed = failed.n,
                         !.total = waiting.n + active.n + completed.n + failed.n]
    ELSE [NoStats EXCEPT !.returned = TRUE, !.isNull = TRUE]

\* Promise.all settles: the four queries have answered, or one has rejected
GetQueueStats ==
  /\ ~stResult.returned
  /\ \/ stWaiting.ok /\ stActive.ok /\ stCompleted.ok /\ stFailed.ok
     \/ QueryFailed \in {stWaiting, stActive, stCompleted, stFailed}
  /\ stResult' = getQueueStats(stWaiting, stActive, stCompleted, stFailed)
  /\ UNCHANGED <<stWaiting, stActive, stCompleted, stFailed>>
  /\ StatsFrame

StatsNext == GetWaiting \/ GetActive \/ GetCompleted \/ GetFailed \/ GetQueueStats

StatsSpec == StatsInit /\ [][StatsNext]_vars

----------------------------------------------------------------------------
(* One call of DEXRouterService.findBestRoute, quote by quote *)

RouterInit ==
  /\ PipeIdle /\ IntakeIdle /\ StatsIdle /\ WsIdle /\ TxIdle
  /\ scenario = NoRun
  /\ qR = QuotePending
  /\ qM = QuotePending
  /\ qSide \in Sides
  /\ routed = NotRouted
  /\ qFirst = "none"
  /\ xReq = NoRequest
  /\ xRes = NoResult

\* getRaydiumQuote settles
RaydiumQuote ==
  /\ qR = QuotePending
  /\ qR' \in QuoteOutcomes
  /\ qFirst' = IF qFirst = "none" THEN RAYDIUM ELSE qFirst
  /\ UNCHANGED <<qM, qSide, routed, xReq, xRes, pipeVars, intakeVars, statsVars, wsVars,
                 txVars>>

\* getMeteraQuote settles
MeteoraQuote ==
  /\ qM = QuotePending
  /\ qM' \in QuoteOutcomes
  /\ qFirst' = IF qFirst = "none" THEN METEORA ELSE qFirst
  /\ UNCHANGED <<qR, qSide, routed, xReq, xRes, pipeVars, intakeVars, statsVars, wsVars,
                 txVars>>

\* Promise.all settles: both quotes are in, or one has rejected
SelectRoute ==
  /\ routed = NotRouted
  /\ (qR.ok /\ qM.ok) \/ qR = QuoteFailed \/ qM = QuoteFailed
  /\ routed' = findBestRoute(qR, qM, qSide)
  /\ UNCHANGED <<qR, qM, qSide, qFirst, xReq, xRes, pipeVars, intakeVars, statsVars, wsVars,
                 txVars>>

\* executeOrder(order, routingResult.bestRoute) on the selected route
ExecuteOrder ==
  /\ routed.ok
  /\ ~xRes.called
  /\ \E amount \in Amounts, shouldFail \in BOOLEAN, slippage \in Slippages :
       /\ xReq' = [side |-> qSide, amount |-> amount, route |-> routed.bestRoute]
       /\ xRes' = executeOrder(qSide, amount, routed.bestRoute, shouldFail, slippage)
  /\ UNCHANGED <<qR, qM, qSide, routed, qFirst, pipeVars, intakeVars, statsVars, wsVars,
                 txVars>>

RouterNext == RaydiumQuote \/ MeteoraQuote \/ SelectRoute \/ ExecuteOrder

RouterSpec == RouterInit /\ [][RouterNext]_vars

----------------------------------------------------------------------------
(* DatabaseService.updateOrderStatus on one row, query by query *)

DbFrame == UNCHANGED <<pipeVars, routerVars, intakeVars, statsVars, wsVars>>

InTransaction == txPc \in {"begun", "selected", "updated", "inserted"}

\* the row is absent or holds any status; no call has been made
DbInit ==
  /\ PipeIdle /\ RouterIdle /\ IntakeIdle /\ StatsIdle /\ WsIdle
  /\ scenario = NoRun
  /\ rowStatus \in {"none"} \cup OrderStatus
  /\ events = <<>>
  /\ txPc = "idle"
  /\ txNew = "none"
  /\ txOld = "none"
  /\ txRow = rowStatus
  /\ txEvents = <<>>
  /\ txBefore = NoSnapshot
  /\ txCalls = 0

\* client = await this.db.connect(); await client.query('BEGIN')
DbBegin(newStatus) ==
  /\ ~InTransaction
  /\ txCalls < MaxCalls
  /\ txCalls' = txCalls + 1
  /\ txPc' = "begun"
  /\ txNew' = newStatus
  /\ txOld' = "none"
  /\ txRow' = rowStatus
  /\ txEvents' = events
  /\ txBefore' = [status |-> rowStatus, events |-> events, failedAt |-> "none"]
  /\ UNCHANGED <<rowStatus, events>>
  /\ DbFrame

DbRollbackKeeps ==
  /\ rowStatus' = txRow
  /\ events' = txEvents
  /\ UNCHANGED <<txRow, txEvents>>

\* catch: await client.query('ROLLBACK'); throw error
DbRollback ==
  /\ txRow' = rowStatus
  /\ txEvents' = events
  /\ UNCHANGED <<rowStatus, events>>

\* SELECT status FROM orders WHERE id = $1; no row throws 'Order not found'
DbSelect ==
  /\ txPc = "begun"
  /\ IF txRow = "none"
       THEN /\ txPc' = "threw"
            /\ txOld' = txOld
            /\ txBefore' = [txBefore EXCEPT !.failedAt = "notFound"]
            /\ DbRollback
       ELSE /\ txPc' = "selected"
            /\ txOld' = txRow
            /\ UNCHANGED <<rowStatus, events, txRow, txEvents, txBefore>>
  /\ UNCHANGED <<txNew, txCalls>>
  /\ DbFrame

\* UPDATE orders SET status = $1, error_message = $2 ..
DbUpdate ==
  /\ txPc = "selected"
  /\ txPc' = "updated"
  /\ txRow' = txNew
  /\ UNCHANGED <<rowStatus, events, txNew, txOld, txEvents, txBefore, txCalls>>
  /\ DbFrame

\* INSERT INTO order_events (.., old_status, new_status, ..)
DbInsert ==
  /\ txPc = "updated"
  /\ txPc' = "inserted"
  /\ txEvents' = Append(txEvents, [old_status |-> txOld, new_status |-> txNew])
  /\ UNCHANGED <<rowStatus, events, txNew, txOld, txRow, txBefore, txCalls>>
  /\ DbFrame

\* COMMIT: the row and the event become visible together; the call returns
DbCommit ==
  /\ txPc = "inserted"
  /\ txPc' = "returned"
  /\ rowStatus' = txRow
  /\ events' = txEvents
  /\ UNCHANGED <<txNew, txOld, txRow, txEvents, txBefore, txCalls>>
  /\ DbFrame

\* any query of the transaction rejects: the catch rolls back and rethrows
DbQueryFails ==
  /\ InTransaction
  /\ txPc' = "threw"
  /\ txBefore' = [txBefore EXCEPT !.failedAt = txPc]
  /\ DbRollback
  /\ UNCHANGED <<txNew, txOld, txCalls>>
  /\ DbFrame

DbNext ==
  \/ \E newStatus \in OrderStatus : DbBegin(newStatus)
  \/ DbSelect
  \/ DbUpdate
  \/ DbInsert
  \/ DbCommit
  \/ DbQueryFails

DbSpec == DbInit /\ [][DbNext]_vars

----------------------------------------------------------------------------
(* Properties *)

RECURSIVE SumTo(_, _)
SumTo(f, n) == IF n = 0 THEN 0 ELSE f[n] + SumTo(f, n - 1)

\* a occurs in seq and b occurs after it
SeenThen(seq, a, b) ==
  \E i \in DOMAIN seq, j \in DOMAIN seq : i < j /\ seq[i] = a /\ seq[j] = b

Has(seq, a) == \E i \in DOMAIN seq : seq[i] = a

\* places of the queue that hold order o
Occurrences(o) ==
  Cardinality({i \in DOMAIN wait : wait[i] = o})
  + (IF delayed[o] >= 0 THEN 1 ELSE 0)
  + Cardinality({s \in Slots : workers[s].job = o})
  + (IF finished[o] # "none" THEN 1 ELSE 0)

Accepted(o) == intake[o] \in {"queued", "done"}

\* the latest step persisted or published a terminal status
LastTerminal == Terminal(last.dbNew) \/ Terminal(last.evNew)

\* C1: every status transition persisted or published for an order, the
\* 'queued' event of addOrderToQueue included, targets a status strictly
\* later in Submitted < Processing < Routing < Executing < {Completed, Failed}
C1_StrictlyForward ==
  /\ last.dbNew # "none" => Rank(last.dbNew) > Rank(last.dbOld)
  /\ last.evNew # "none" => Rank(last.evNew) > Rank(last.evOld)

\* C2 as stated: after executor success, executor failure or routing failure,
\* a terminal status is reached only after Routing and then Executing were
\* published in that attempt
C2_TerminalAfterRoutingAndExecuting ==
  (LastTerminal /\ last.cause \in {"executorSuccess", "executorFailure", "routingFailure"})
    => SeenThen(last.seen, ROUTING, EXECUTING)

\* C2 amended: after executor success or executor failure a terminal status is
\* reached only after Routing and then Executing of that attempt; after a
\* routing failure Failed is reached after Routing and without Executing
C2_TerminalPath ==
  LastTerminal =>
    /\ last.cause \in {"executorSuccess", "executorFailure"}
         => SeenThen(last.seen, ROUTING, EXECUTING)
    /\ last.cause = "routingFailure"
         => Has(last.seen, ROUTING) /\ ~Has(last.seen, EXECUTING)

C2_Witness ==
  /\ last.evNew = FAILED
  /\ last.cause = "routingFailure"
  /\ last.seen = <<PROCESSING, ROUTING>>

\* C3: Failed is persisted and published only when the last allowed attempt
\* has failed, never for an attempt that will be retried
C3_NoFailedBeforeLastAttempt ==
  (last.dbNew = FAILED \/ last.evNew = FAILED) => last.attempt = Attempts

\* C4: a connection of the owner that stays registered for the whole run
\* receives exactly one message announcing the terminal outcome of the order:
\* never more than one, and one once the queue has finished with the job
C4_ExactlyOneTerminalMessage ==
  \A o \in Orders : \A c \in subscribed[o] :
    /\ termCount[c][o] <= 1
    /\ finished[o] # "none" => termCount[c][o] = 1

\* C5, as the final result of the liveness claim: once the queue has finished
\* with an accepted order (completed, or failed with no attempt left) its
\* persisted status is Completed or Failed
C5_FinishedOrdersAreTerminal ==
  \A o \in Orders : finished[o] # "none" => Terminal(dbStatus[o])

C7_ConcurrencyBound ==
  Cardinality({o \in Orders : InFlight(dbStatus[o])}) <= Concurrency

C9_RollingWindowBound == SumTo(startsAgo, RateDuration) <= RateMax

\* starts since the limiter key was set
WindowStarts == SumTo(startsAgo, RateDuration - limTTL + 1)

\* C9 amended: within one limiter window (the RateDuration ticks that begin
\* with the first start after the previous window ended) at most RateMax
\* starts occur; a rolling window holds at most 2 * RateMax - 1; accepted
\* orders beyond the limit are held by the queue
C9_LimiterWindowBound ==
  /\ limTTL > 0 => WindowStarts <= RateMax
  /\ SumTo(startsAgo, RateDuration) <= 2 * RateMax - 1
  /\ \A o \in Orders : Accepted(o) => Occurrences(o) = 1

C9_Witness ==
  /\ LimiterBlocks
  /\ WindowStarts = RateMax
  /\ wait # <<>>

getOrder(o) == [status |-> dbStatus[o], executionDetail |-> dbExec[o],
                errorMessage |-> dbError[o]]

\* C11: when both venues quote the same price, the first-configured venue
\* (Raydium) is selected, for buy and for sell, whichever quote call returned
\* first
C11_TieBreak ==
  (routed.ok /\ qR.price = qM.price) =>
    routed.bestRoute = Quote(RAYDIUM, qR.price)

C11_Witness ==
  /\ routed.ok
  /\ qR.price = qM.price
  /\ qFirst = METEORA
  /\ qSide = "buy"
  /\ routed.bestRoute.provider = RAYDIUM

\* C12: once findBestRoute has settled and at least one venue has returned a
\* quote, it has returned a decision whose bestRoute is a quote of a venue
\* that answered
C12_PartialSuccess ==
  (routed # NotRouted /\ (qR.ok \/ qM.ok)) =>
    /\ routed.ok
    /\ \/ qR.ok /\ routed.bestRoute = Quote(RAYDIUM, qR.price)
       \/ qM.ok /\ routed.bestRoute = Quote(METEORA, qM.price)

C14_ExecutorBoundary ==
  xRes.called =>
    /\ ~xRes.raised
    /\ ~xRes.success => xRes.errorMessage # ""
    /\ xRes.success =>
         /\ xRes.executionPrice # -1
         /\ xRes.executedAmount # -1
         /\ xRes.transactionHash # ""

C14_Witness ==
  /\ xRes.called
  /\ ~xRes.success
  /\ xRes.errorMessage # ""

\* C15: for a successful execution, the realized amount is at most the
\* requested amount, the realized price deviates from the quoted price by at
\* most the slippage bound (0.3%), and only against the trader (buy: not
\* below the quote, sell: not above it)
C15_SlippageBound ==
  (xRes.called /\ xRes.success) =>
    LET quoted == xReq.route.price * SlipUnit
        realized == xRes.executionPrice
        bound == xReq.route.price * (SlippageMin + SlippageSpan)
    IN /\ xRes.executedAmount <= xReq.amount * 2 * SlipUnit
       /\ xReq.side = "buy" => (realized >= quoted /\ realized - quoted <= bound)
       /\ xReq.side = "sell" => (realized <= quoted /\ quoted - realized <= bound)

C15_Witness ==
  /\ xRes.called
  /\ xRes.success
  /\ xReq.side = "sell"
  /\ xRes.executionPrice = xReq.route.price * (SlipUnit - (SlippageMin + SlippageSpan - 1))
  /\ xRes.executedAmount < xReq.amount * 2 * SlipUnit

\* C16: once the persisted status of an order is Completed, no step writes
\* another status over it, and the order is not scheduled for, or taken into,
\* another processing attempt
C16_CompletedAbsorbing ==
  /\ last.dbOld = COMPLETED => last.dbNew = COMPLETED
  /\ \A o \in Orders : dbStatus[o] = COMPLETED =>
       /\ ~Has(wait, o)
       /\ delayed[o] = -1
       /\ \A s \in Slots : workers[s].job = o => workers[s].pc # "processing"

\* C17: while the persisted status stays Completed the execution detail that
\* getOrder returns does not change, so that two queries that both see
\* Completed see the same detail
C17_CompletedDetailStable ==
  [][\A o \in Orders :
       (getOrder(o).status = COMPLETED /\ getOrder(o)'.status = COMPLETED)
         => getOrder(o)'.executionDetail = getOrder(o).executionDetail]_vars

\* C18: in the persisted record, execution detail is present only with the
\* status Completed and error detail only with the status Failed
C18_DetailMatchesStatus ==
  \A o \in Orders :
    /\ getOrder(o).executionDetail # "none" => getOrder(o).status = COMPLETED
    /\ getOrder(o).errorMessage # "none" => getOrder(o).status = FAILED

C18_Witness ==
  \E o \in Orders :
    /\ attemptsMade[o] >= 1
    /\ dbStatus[o] = PROCESSING
    /\ dbError[o] = "none"

\* C19: an order whose persisted status is Failed carries an error reason
C19_FailedHasReason ==
  \A o \in Orders : getOrder(o).status = FAILED => getOrder(o).errorMessage # "none"

\* C20: a submission answered 503 because the queue did not accept the job
\* leaves no order record in the status Submitted (pending)
C20_NoRecordAfter503 ==
  \A o \in Orders : intake[o] = "error503" => getOrder(o).status # PENDING

\* C23: once shutdown() has returned, no processing attempt is under way,
\* every accepted order is in a terminal status or held by the queue (waiting
\* or delayed), and no order is left in Processing, Routing or Executing
C23_ShutdownLosesNoWork ==
  shut = "closed" =>
    /\ \A s \in Slots : workers[s].pc = "idle"
    /\ \A o \in Orders : Accepted(o) =>
         /\ Terminal(dbStatus[o]) \/ Has(wait, o) \/ delayed[o] >= 0
         /\ ~InFlight(dbStatus[o])

\* an order intent that the specification rejects: the same symbol on both
\* sides, a non-positive amount, an amount above the ceiling, or a symbol
\* that is not supported
InvalidIntent(body) ==
  \/ toUpperCase(body.baseToken) = toUpperCase(body.quoteToken)
  \/ body.amount.w < 0
  \/ (body.amount.w = 0 /\ body.amount.f = 0)
  \/ body.amount.w > 1000000
  \/ (body.amount.w = 1000000 /\ body.amount.f > 0)
  \/ toUpperCase(body.baseToken) \notin validTokens
  \/ toUpperCase(body.quoteToken) \notin validTokens

\* C21: a request with an invalid intent is answered 400 before createOrder
\* and addOrderToQueue: no row is created and no job is queued
C21_ValidationRejects ==
  InvalidIntent(rqBody) =>
    /\ rqReply \in {"received", "handler", "400"}
    /\ ~rowAmount.present
    /\ ~jobAmount.present

C21_Witness ==
  /\ rqBody.baseToken = "usdc"
  /\ rqBody.quoteToken = "USDC"
  /\ rqBody.amount = Amt(1, 0)
  /\ rqReply = "400"

\* C22: for an accepted order, the amount of the persisted row and the amount
\* carried by the job (and handed to router and executor) equal the amount of
\* the request
C22_AmountImmutable ==
  rqReply = "201" =>
    /\ rowAmount = rqBody.amount
    /\ jobAmount = rqBody.amount

\* C24: getQueueStats does not throw; every count whose query had answered
\* when it returned is in the result; when the four queries answered, total
\* is the sum of the four counts
C24_StatsDegrade ==
  stResult.returned =>
    /\ ~stResult.threw
    /\ stWaiting.ok => stResult.waiting = stWaiting.n
    /\ stActive.ok => stResult.active = stActive.n
    /\ stCompleted.ok => stResult.completed = stCompleted.n
    /\ stFailed.ok => stResult.failed = stFailed.n
    /\ (stWaiting.ok /\ stActive.ok /\ stCompleted.ok /\ stFailed.ok) =>
         stResult.total = stWaiting.n + stActive.n + stCompleted.n + stFailed.n

\* connections registered under user u in registry reg
ChannelsOf(reg, u) == {c \in WsConnIds : reg[c] = u}

\* C25: a publish for a user without a registered channel returns without
\* error, delivers nothing and leaves the registry as it was
C25_NoSubscriberNoOp ==
  (wsLast.op = "publish" /\ ChannelsOf(wsLast.before, wsLast.user) = {}) =>
    /\ ~wsLast.threw
    /\ wsLast.after = wsLast.before
    /\ wsLast.delivered = {}

C25_Witness ==
  /\ wsLast.op = "publish"
  /\ wsLast.user = "u1"
  /\ ChannelsOf(wsLast.before, "u1") = {}
  /\ ChannelsOf(wsLast.before, "u2") # {}
  /\ wsLast.after = wsLast.before

\* C26: when the send to some channels of the user fails, those channels are
\* removed from the registry, every other channel of the user is sent the
\* same event and stays registered, and the publish returns without error
C26_FailedDeliveryDropsOnlyFailing ==
  (wsLast.op = "publish" /\ wsLast.failed # {}) =>
    /\ ~wsLast.threw
    /\ \A c \in wsLast.failed : wsLast.after[c] = "none"
    /\ \A c \in ChannelsOf(wsLast.before, wsLast.user) \ wsLast.failed :
         /\ c \in wsLast.delivered
         /\ wsLast.after[c] = wsLast.user
    /\ \A c \in WsConnIds : wsLast.before[c] # wsLast.user => wsLast.after[c] = wsLast.before[c]

C26_Witness ==
  /\ wsLast.op = "publish"
  /\ wsLast.failed # {}
  /\ wsLast.delivered # {}
  /\ \E c \in wsLast.delivered : Len(wsInbox[c]) >= 2

\* C27: the order events a channel has received are in the order in which
\* they were published for its user
C27_PerChannelOrder ==
  \A c \in WsConnIds : \A i \in DOMAIN wsInbox[c], j \in DOMAIN wsInbox[c] :
    (i < j /\ wsInbox[c][i].type = "order_status_update"
           /\ wsInbox[c][j].type = "order_status_update")
      => wsInbox[c][i].n < wsInbox[c][j].n

C27_Witness ==
  \E c \in WsConnIds :
    /\ Len(wsInbox[c]) = 3
    /\ wsInbox[c][2].order # wsInbox[c][3].order
    /\ wsInbox[c][2].n = 1
    /\ wsInbox[c][3].n = 2

\* C28: an event published for user U is sent to every channel registered
\* under U (delivered, or dropped because its send failed) and to no other
\* channel; every message a channel holds is one of its own user
C28_OwnerOnly ==
  /\ wsLast.op = "publish" =>
       wsLast.delivered \cup wsLast.failed = ChannelsOf(wsLast.before, wsLast.user)
  /\ \A c \in Registered : \A i \in DOMAIN wsInbox[c] : wsInbox[c][i].user = wsUser[c]

C28_Witness ==
  /\ wsLast.op = "publish"
  /\ wsLast.user = "u1"
  /\ ChannelsOf(wsLast.before, "u2") # {}
  /\ wsLast.delivered # {}
  /\ \A c \in ChannelsOf(wsLast.before, "u2") : Len(wsInbox[c]) = 1

\* C29: a connection opened without a userId is closed with 1008, is never in
\* the registry and receives nothing; an open connection with a userId is
\* registered, and the first message a connection receives is
\* connection_established with its connection id
C29_ConnectionAdmission ==
  \A c \in WsConnIds :
    /\ wsUser[c] # ""
    /\ wsState[c] = "closed1008" => (wsUser[c] = "none" /\ wsInbox[c] = <<>>)
    /\ wsState[c] = "open" => (wsUser[c] \in WsUsers /\ wsInbox[c] # <<>>)
    /\ wsInbox[c] # <<>> =>
         (Head(wsInbox[c]).type = "connection_established" /\ Head(wsInbox[c]).n = c)

C29_Witness ==
  /\ wsState[1] = "closed1008"
  /\ wsState[2] = "open"
  /\ wsInbox[2] = <<ConnectionEstablished(2, "u1")>>

\* C30: after a sweep, every channel that was registered and had no activity
\* for longer than the timeout is out of the registry and was closed with
\* the policy-violation code (1008), and every other channel that was
\* registered still is
C30_LivenessSweep ==
  wsLast.op = "sweep" =>
    /\ wsLast.stale = {c \in WsConnIds : wsLast.before[c] # "none" /\ wsLast.after[c] = "none"}
    /\ \A c \in WsConnIds :
         wsLast.before[c] # "none" =>
           wsLast.after[c] = (IF c \in wsLast.stale THEN "none" ELSE wsLast.before[c])
    /\ \A c \in wsLast.stale : wsState[c] = "closed1008"

\* C39: a call of DatabaseService.updateOrderStatus that returns has set the
\* stored status to the new one and appended exactly one audit entry, from
\* the status stored just before to the new one; a call that throws has left
\* the stored status and the audit log as they were
C39_AuditAtomicity ==
  /\ txPc = "returned" =>
       /\ rowStatus = txNew
       /\ events = Append(txBefore.events,
                          [old_status |-> txBefore.status, new_status |-> txNew])
  /\ txPc = "threw" =>
       /\ rowStatus = txBefore.status
       /\ events = txBefore.events

C39_Witness ==
  /\ txPc = "threw"
  /\ txBefore.failedAt = "inserted"
  /\ txCalls = MaxCalls
  /\ Len(events) = 1
  /\ rowStatus = events[1].new_status
  /\ rowStatus # txNew

\* C40: when the persistence update inside OrderQueueService.updateOrderStatus
\* has failed, the in-memory status of the order equals the persisted status
C40_NoChangeOnFailedPersistence ==
  \A s \in Slots :
    (workers[s].pc = "catch1" /\ workers[s].err = "db")
      => workers[s].status = dbStatus[workers[s].job]

\* C32: a published status is the persisted status of the order, and a failed
\* persistence update publishes nothing
C32_PersistThenNotify ==
  /\ last.op = "status" => dbStatus[last.order] = last.evNew
  /\ last.op = "dbfail" => last.evNew = "none"

C32_Witness ==
  /\ last.op = "status"
  /\ last.evNew = FAILED
  /\ last.reason = "db"
  /\ dbStatus[last.order] = FAILED
  /\ connections # {}

\* the progress the specification fixes for a status
FixedProgress(st) ==
  CASE st = PROCESSING -> 20
    [] st = ROUTING -> 40
    [] st = EXECUTING -> 70
    [] st = COMPLETED -> 100
    [] st = FAILED -> 0

\* C33: a status event carries the progress fixed for its new status, and it
\* is greater than that of the event published before it in the same attempt
\* unless the new status is Failed
C33_ProgressIndicator ==
  (last.op = "status" /\ last.evNew \in {PROCESSING, ROUTING, EXECUTING, COMPLETED, FAILED}) =>
    /\ last.progress = FixedProgress(last.evNew)
    /\ (last.seen # <<>> /\ ~Terminal(last.seen[Len(last.seen)]) /\ last.evNew # FAILED)
         => FixedProgress(last.seen[Len(last.seen)]) < last.progress

C33_Witness ==
  /\ last.op = "status"
  /\ last.evNew = COMPLETED
  /\ last.seen = <<PROCESSING, ROUTING, EXECUTING>>
  /\ last.progress = 100

\* C36: an event of processOrder (a status event or the completion event) is
\* published for an order only after the 'queued' event of addOrderToQueue
C36_QueuedNotificationFirst ==
  last.op \in {"status", "completion"} => intake[last.order] = "done"

\* C37: an order held by the queue or by a worker has its row, and an order
\* whose createOrder failed never enters the queue
C37_RecordBeforeDequeue ==
  \A o \in Orders :
    /\ (Occurrences(o) > 0 \/ started[o] > 0) => dbStatus[o] # "none"
    /\ intake[o] = "error500" => (Occurrences(o) = 0 /\ started[o] = 0)

C37_Witness ==
  /\ intake[1] = "error500"
  /\ dbStatus[1] = "none"
  /\ \E s \in Slots : workers[s].job = 2 /\ workers[s].pc = "routing"

\* C35: the oldStatus of a published status event is the newStatus of the
\* status event published before it for the same order (Submitted for the
\* first one), and is the old_status of the audit entry written for the same
\* transition
C35_EventChainContinuity ==
  last.op = "status" =>
    /\ last.evOld = last.evPrev
    /\ last.dbOld # "none" => last.evOld = last.dbOld

\* C34: over all attempts of an order, at most one executor call succeeds
C34_AtMostOnceExecution == \A o \in Orders : hist[o].fills <= 1

\* C31: at most one completion event per order; it is published only after
\* an executor call succeeded and the execution detail was persisted, with
\* the persisted values; once the queue has finished with an order for which
\* an executor call succeeded, its completion event has been published
C31_CompletionEvent ==
  /\ \A o \in Orders :
       /\ hist[o].completions <= 1
       /\ hist[o].completions = 1 => (hist[o].fills >= 1 /\ dbExec[o] # "none")
       /\ (finished[o] # "none" /\ hist[o].fills >= 1) => hist[o].completions = 1
  /\ last.op = "completion" => last.detail = dbExec[last.order]

============================================================================
